---- MODULE Spec2Model ----
(***************************************************************************)
(* Dust transport simulation of the Ancillia viewer                        *)
(* (src/src/ancillia-enhancements.ts): hexagon containment, the field      *)
(* model, particle spawn/respawn and the per-frame integrator stepDust.    *)
(*                                                                         *)
(* The source computes in IEEE doubles; the model computes in integers    *)
(* over fixed units, every division rounding down:                         *)
(*   length      0.1 mm          (HEX_RADIUS 0.22 m = 2200)                *)
(*   scale       1/100           (TRENCH_INNER_SCALE 1.02 = 102)           *)
(*   time        1 ms            (dwell time 1.2 s = 1200)                 *)
(*   velocity    1 mm/s                                                    *)
(*   accel.      1 m/s^2                                                   *)
(*   radius      1 um                                                      *)
(*   mass        1e-15 kg                                                  *)
(*   charge      1e-15 C                                                   *)
(*   field       1 V/m                                                     *)
(*   force       1e-15 N                                                   *)
(*   Math.random() value u/1000 for u in 0..999                            *)
(***************************************************************************)
EXTENDS Integers, Sequences, FiniteSets, TLC

\* ------------------------------------------------------------------------
\* Geometric + stack constants (hex module)
\* ------------------------------------------------------------------------
HEX_FLAT == 3800
HEX_POINT == 4400
HEX_APOTHEM == HEX_FLAT \div 2
HEX_RADIUS == HEX_POINT \div 2

BASE_THICKNESS == 42
SUBSTRATE_THICKNESS == 16
PANEL_THICKNESS == 25

TRENCH_INNER_SCALE == 102
TRENCH_OUTER_SCALE == 112
CARTRIDGE_HEIGHT == 115

PANEL_SURFACE_Y == BASE_THICKNESS + SUBSTRATE_THICKNESS + PANEL_THICKNESS

ELECTRODE_SEGMENTS == 12

\* ------------------------------------------------------------------------
\* Dust physics + field constants
\* ------------------------------------------------------------------------
DUST_RADIUS_MIN == 8
DUST_RADIUS_MAX == 38
DUST_DENSITY == 3100
DUST_CHARGE_MIN == 2
DUST_CHARGE_MAX == 90
ADHESION_PER_AREA == 50
\* 3.71 m/s^2, in 1/100 m/s^2
MARTIAN_GRAVITY == 371

FIELD_BASE == 120000
FIELD_TRAVEL == 65000
FIELD_LATERAL == 31000
WAVE_FREQUENCY == 42
\* (2*PI)/3 = 120 degrees, in steps of 15 degrees
PHASE_SHIFT == 8
\* 0.45 1/s, in 1/100 1/s
DRAG_COEFF == 45

\* new THREE.Vector3(0.15, 0, -0.08) V/m, in 1/100 V/m
DIRECTIONAL_DRIFT == [x |-> 15, y |-> 0, z |-> -8]

\* TRENCH_OUTER_SCALE * 1.08 = 1.2096, cut to the scale grid
BOUNDS_SCALE == (TRENCH_OUTER_SCALE * 108) \div 100
MAX_DUST_HEIGHT == 25000

\* Math.PI in 1/1000
PI_MILLI == 3142

\* ------------------------------------------------------------------------
\* Arithmetic helpers
\* ------------------------------------------------------------------------
\* THREE.Vector3
Vector3(x, y, z) == [x |-> x, y |-> y, z |-> z]

\* Math.sign
Sign(v) == IF v > 0 THEN 1 ELSE IF v < 0 THEN -1 ELSE 0

\* Math.max / Math.min
Max(a, b) == IF a >= b THEN a ELSE b
Min(a, b) == IF a <= b THEN a ELSE b

\* Math.cos / Math.sin at the hexagon's vertex angles (multiples of 30
\* degrees, index k = angle / 30), in 1/22: cos 30 = 19/22, sin 30 = 11/22.
HexCosTable == <<22, 19, 11, 0, -11, -19, -22, -19, -11, 0, 11, 19>>
HexCos(k) == HexCosTable[(k % 12) + 1]
HexSin(k) == HexCos(k + 9)

\* ------------------------------------------------------------------------
\* Hex geometry helpers
\* ------------------------------------------------------------------------
\* hexVertices(scale): vertex i (1..6) at angle PI/6 + (PI/3)*(i-1), as a
\* THREE.Vector2 whose y is the scene's z.
hexVertices(scale) ==
  [i \in 1..6 |->
     LET r == (HEX_RADIUS * scale) \div 100
     IN  [x |-> (r * HexCos(1 + 2 * (i - 1))) \div 22,
          y |-> (r * HexSin(1 + 2 * (i - 1))) \div 22]]

\* cross product of edge i of verts with the point, point.y read for point.z
EdgeCross_Height(verts, i, point) ==
  LET a == verts[i]
      b == verts[(i % 6) + 1]
  IN  (b.x - a.x) * (point.y - a.y) - (b.y - a.y) * (point.x - a.x)

\* cross product of edge i of verts with the point
EdgeCross(verts, i, point) ==
  LET a == verts[i]
      b == verts[(i % 6) + 1]
  IN  (b.x - a.x) * (point.z - a.y) - (b.y - a.y) * (point.x - a.x)

\* the loop of isInsideHex with a zero cross product rejected, not skipped
RECURSIVE InsideLoop_RejectZero(_, _, _, _)
InsideLoop_RejectZero(verts, point, i, sign) ==
  IF i > 6 THEN TRUE
  ELSE LET cross == EdgeCross(verts, i, point)
       IN  IF cross = 0 THEN FALSE
           ELSE IF sign = 0 THEN InsideLoop_RejectZero(verts, point, i + 1, Sign(cross))
           ELSE IF Sign(cross) # sign THEN FALSE
           ELSE InsideLoop_RejectZero(verts, point, i + 1, sign)

\* the loop of isInsideHex from edge i on, with the sign accumulated so far
RECURSIVE InsideLoop(_, _, _, _)
InsideLoop(verts, point, i, sign) ==
  IF i > 6 THEN TRUE
  ELSE LET cross == EdgeCross(verts, i, point)
       IN  IF cross = 0 THEN InsideLoop(verts, point, i + 1, sign)
           ELSE IF sign = 0 THEN InsideLoop(verts, point, i + 1, Sign(cross))
           ELSE IF Sign(cross) # sign THEN FALSE
           ELSE InsideLoop(verts, point, i + 1, sign)

isInsideHex(point, scale) == InsideLoop(hexVertices(scale), point, 1, 0)

\* ------------------------------------------------------------------------
\* Random draws
\* ------------------------------------------------------------------------
\* Math.random() returns u/1000 for a draw u; Math.pow(t, 1.8) for
\* t = u/1000, in 1/1000, at the draws the model takes
Pow18(u) == CASE u = 0 -> 0 [] u = 250 -> 82 [] u = 500 -> 287
              [] u = 550 -> 340 [] u = 750 -> 596 [] u = 999 -> 998

\* samplePointInHex(scale): the candidate of one pass of the loop, from
\* the pair of draws u
HexCandidate(scale, u) ==
  LET r == (HEX_RADIUS * scale) \div 100
  IN  Vector3(((2 * u[1] - 1000) * r) \div 1000, 0, ((2 * u[2] - 1000) * r) \div 1000)

\* samplePointInHex(scale) returning its first candidate untested
samplePointInHex_Untested(scale, pairs) ==
  {HexCandidate(scale, u) : u \in pairs}

\* samplePointInHex(scale): the loop returns the first candidate that
\* isInsideHex accepts, so over the pairs of draws it may see its results
\* are the accepted candidates
samplePointInHex(scale, pairs) ==
  {p \in {HexCandidate(scale, u) : u \in pairs} : isInsideHex(p, scale)}

\* ------------------------------------------------------------------------
\* Dust particles
\* ------------------------------------------------------------------------
\* sampleRadius() with the maximum in place of the range
sampleRadius_Wide(t) ==
  DUST_RADIUS_MIN + (DUST_RADIUS_MAX * Pow18(t)) \div 1000

\* sampleRadius(), t the draw
sampleRadius(t) ==
  DUST_RADIUS_MIN + ((DUST_RADIUS_MAX - DUST_RADIUS_MIN) * Pow18(t)) \div 1000

\* lerp(a, b, t) started from b
lerp_Overshoot(a, b, t) == b + ((b - a) * t) \div 1000

\* THREE.MathUtils.lerp(a, b, t)
lerp(a, b, t) == a + ((b - a) * t) \div 1000

\* The draws of one respawnParticle call: radius, charge, spawn point
\* (already accepted by samplePointInHex), height and the two velocity draws.
SpawnDraw(t, c, point, uy, uvx, uvz) ==
  [t |-> t, c |-> c, point |-> point, uy |-> uy, uvx |-> uvx, uvz |-> uvz]

\* p.attached = false; p.collected = false; p.collectTimer = 0
RespawnState_Free == [attached |-> FALSE, collected |-> FALSE, collectTimer |-> 0]

\* p.attached = true; p.collected = false; p.collectTimer = 0
RespawnState == [attached |-> TRUE, collected |-> FALSE, collectTimer |-> 0]

\* respawnParticle(p, fresh) without p.mass = mass
respawnParticle_KeepMass(p, d) ==
  LET radius == sampleRadius(d.t)
      charge == lerp(DUST_CHARGE_MIN, DUST_CHARGE_MAX, d.c)
      adhesion == ADHESION_PER_AREA * PI_MILLI * radius * radius
      position == Vector3(d.point.x,
                          PANEL_SURFACE_Y + 20 + (200 * d.uy) \div 1000,
                          d.point.z)
  IN  [p EXCEPT !.radius = radius,
                !.charge = charge,
                !.adhesion = adhesion,
                !.attached = RespawnState.attached,
                !.collected = RespawnState.collected,
                !.collectTimer = RespawnState.collectTimer,
                !.position = position,
                !.velocity = Vector3((d.uvx - 500) \div 100, 0, (d.uvz - 500) \div 100),
                !.meshPosition = position]

\* respawnParticle(p, fresh): the record p after the call, d the draws
respawnParticle(p, d) ==
  LET radius == sampleRadius(d.t)
      \* (4 / 3) * PI * radius^3 in 1e-21 m^3
      volume == (4 * PI_MILLI * radius * radius * radius) \div 3
      mass == ((volume \div 1000) * DUST_DENSITY) \div 1000
      charge == lerp(DUST_CHARGE_MIN, DUST_CHARGE_MAX, d.c)
      adhesion == ADHESION_PER_AREA * PI_MILLI * radius * radius
      position == Vector3(d.point.x,
                          PANEL_SURFACE_Y + 20 + (200 * d.uy) \div 1000,
                          d.point.z)
  IN  [p EXCEPT !.radius = radius,
                !.mass = mass,
                !.charge = charge,
                !.adhesion = adhesion,
                !.attached = RespawnState.attached,
                !.collected = RespawnState.collected,
                !.collectTimer = RespawnState.collectTimer,
                !.position = position,
                !.velocity = Vector3((d.uvx - 500) \div 100, 0, (d.uvz - 500) \div 100),
                !.meshPosition = position]

\* spawnDustParticle(geom, material): a new record with a new mesh, then
\* respawnParticle(p, true); id names the record object and the mesh object
spawnDustParticle(id, d) ==
  respawnParticle([id |-> id,
                   mesh |-> id,
                   meshPosition |-> Vector3(0, 0, 0),
                   position |-> Vector3(0, 0, 0),
                   velocity |-> Vector3(0, 0, 0),
                   radius |-> 0,
                   mass |-> 0,
                   charge |-> 0,
                   adhesion |-> 0,
                   attached |-> TRUE,
                   collected |-> FALSE,
                   collectTimer |-> 0], d)

\* ------------------------------------------------------------------------
\* Electric field: vertical + tangential traveling wave + drift
\* ------------------------------------------------------------------------
\* Math.sin at multiples of 15 degrees (index k = angle / 15), in 1/1000
SinMilliTable ==
  <<0, 259, 500, 707, 866, 966, 1000, 966, 866, 707, 500, 259,
    0, -259, -500, -707, -866, -966, -1000, -966, -866, -707, -500, -259>>
SinMilli(k) == SinMilliTable[(k % 24) + 1]
CosMilli(k) == SinMilli(k + 6)

\* Math.sqrt, rounded down: the r in lo..hi with r*r <= n < (r+1)*(r+1)
RECURSIVE SqrtBetween(_, _, _)
SqrtBetween(n, lo, hi) ==
  IF lo >= hi THEN lo
  ELSE LET mid == (lo + hi + 1) \div 2
       IN  IF mid * mid <= n THEN SqrtBetween(n, mid, hi)
           ELSE SqrtBetween(n, lo, mid - 1)
Sqrt(n) == SqrtBetween(n, 0, 46340)

\* Math.floor(((angle + PI) / (2 * PI)) * ELECTRODE_SEGMENTS) for
\* angle = Math.atan2(z, x): the 30-degree lane that holds the direction of
\* (x, z), counted from the negative x axis; atan2 gives 0 at the origin and
\* +PI on the negative x axis, where the quotient reaches ELECTRODE_SEGMENTS.
SectorFloor(x, z) ==
  IF x = 0 /\ z = 0 THEN ELECTRODE_SEGMENTS \div 2
  ELSE IF z = 0 /\ x < 0 THEN ELECTRODE_SEGMENTS
  ELSE CHOOSE k \in 0..(ELECTRODE_SEGMENTS - 1) :
         /\ HexCos(k + 6) * z - HexSin(k + 6) * x >= 0
         /\ HexCos(k + 7) * z - HexSin(k + 7) * x < 0

\* laneIndex of computeFieldAt without Math.max / Math.min
LaneIndex_Unclamped(position) == SectorFloor(position.x, position.z)

\* laneIndex of computeFieldAt
LaneIndex(position) ==
  Max(0, Min(ELECTRODE_SEGMENTS - 1, SectorFloor(position.x, position.z)))

\* phase of computeFieldAt, in steps of 15 degrees:
\* time * 2 * PI * WAVE_FREQUENCY + laneIndex * PHASE_SHIFT
Phase(position, time) ==
  ((time * WAVE_FREQUENCY * 24) \div 1000 + LaneIndex(position) * PHASE_SHIFT) % 24

\* computeFieldAt(position, time)
computeFieldAt(position, time) ==
  LET radius == Sqrt(position.x * position.x + position.z * position.z)
      rNorm == Max(0, Min(1000, (radius * 1000) \div HEX_APOTHEM))
      phase == Phase(position, time)
      Ey == FIELD_BASE
              + (((FIELD_TRAVEL * SinMilli(phase)) \div 1000)
                   * (1000 - (350 * rNorm) \div 1000)) \div 1000
      tangentialMag == (((FIELD_LATERAL * CosMilli(phase)) \div 1000)
                          * (400 + (600 * rNorm) \div 1000)) \div 1000
      radialMag == ((FIELD_LATERAL \div 4) * SinMilli(phase + 3)) \div 1000
      \* (cos(angle), 0, sin(angle)) in 1/1000; angle = 0 at the origin
      cosA == IF radius = 0 THEN 1000 ELSE (position.x * 1000) \div radius
      sinA == IF radius = 0 THEN 0 ELSE (position.z * 1000) \div radius
      \* radialDir * radialMag + tangentialDir * tangentialMag, in 1/100 V/m
      hx == (cosA * radialMag - sinA * tangentialMag) \div 10
      hz == (sinA * radialMag + cosA * tangentialMag) \div 10
  IN  Vector3((hx + DIRECTIONAL_DRIFT.x) \div 100,
              Ey,
              (hz + DIRECTIONAL_DRIFT.z) \div 100)

\* THREE.Vector3 objects of one computeFieldAt call, by name: the argument
\* position, the shared DIRECTIONAL_DRIFT, and the vectors the call creates.
\* Directions are in 1/1000, field vectors in 1/1000 V/m.
\* v.clone(): a new object dst with the value of src
Clone(store, src, dst) == [store EXCEPT ![dst] = store[src]]

\* v.multiplyScalar(k): writes the receiver
MultiplyScalar(store, receiver, k) ==
  [store EXCEPT ![receiver] = Vector3(@.x * k, @.y * k, @.z * k)]

\* v.add(w): writes the receiver, reads the argument
AddVector(store, receiver, argument) ==
  [store EXCEPT ![receiver] = Vector3(@.x + store[argument].x,
                                      @.y + store[argument].y,
                                      @.z + store[argument].z)]

\* DIRECTIONAL_DRIFT.add(radial + tangential): the bias vector as receiver
Horizontal_IntoDrift(store, radialMag, tangentialMag) ==
  LET radial == MultiplyScalar(Clone(store, "radialDir", "radial"), "radial", radialMag)
      tangential == MultiplyScalar(Clone(radial, "tangentialDir", "tangential"),
                                   "tangential", tangentialMag)
      sum == AddVector(tangential, "radial", "tangential")
      biased == AddVector(sum, "drift", "radial")
  IN  [biased EXCEPT !.radial = biased.drift]

\* radialDir.clone().multiplyScalar(radialMag)
\*   .add(tangentialDir.clone().multiplyScalar(tangentialMag))
\*   .add(DIRECTIONAL_DRIFT): the store after the chain, horizontal = radial
Horizontal(store, radialMag, tangentialMag) ==
  LET radial == MultiplyScalar(Clone(store, "radialDir", "radial"), "radial", radialMag)
      tangential == MultiplyScalar(Clone(radial, "tangentialDir", "tangential"),
                                   "tangential", tangentialMag)
      sum == AddVector(tangential, "radial", "tangential")
  IN  AddVector(sum, "radial", "drift")

\* One call computeFieldAt(position, time) with the bias vector holding
\* drift: the vector returned, and the argument and the bias vector as the
\* call leaves them
FieldCall(position, time, drift) ==
  LET radius == Sqrt(position.x * position.x + position.z * position.z)
      rNorm == Max(0, Min(1000, (radius * 1000) \div HEX_APOTHEM))
      phase == Phase(position, time)
      Ey == FIELD_BASE
              + (((FIELD_TRAVEL * SinMilli(phase)) \div 1000)
                   * (1000 - (350 * rNorm) \div 1000)) \div 1000
      tangentialMag == (((FIELD_LATERAL * CosMilli(phase)) \div 1000)
                          * (400 + (600 * rNorm) \div 1000)) \div 1000
      radialMag == ((FIELD_LATERAL \div 4) * SinMilli(phase + 3)) \div 1000
      cosA == IF radius = 0 THEN 1000 ELSE (position.x * 1000) \div radius
      sinA == IF radius = 0 THEN 0 ELSE (position.z * 1000) \div radius
      store == [position |-> position,
                drift |-> Vector3(drift.x * 10, drift.y * 10, drift.z * 10),
                radialDir |-> Vector3(cosA, 0, sinA),
                tangentialDir |-> Vector3(-sinA, 0, cosA),
                radial |-> Vector3(0, 0, 0),
                tangential |-> Vector3(0, 0, 0)]
      after == Horizontal(store, radialMag, tangentialMag)
  IN  [result |-> Vector3(after.radial.x \div 1000, Ey, after.radial.z \div 1000),
       position |-> after.position,
       drift |-> Vector3(after.drift.x \div 10, after.drift.y \div 10,
                         after.drift.z \div 10)]

\* ------------------------------------------------------------------------
\* stepDust
\* ------------------------------------------------------------------------
\* the dwell time of a collected particle, 1.2 s
DWELL_TIME == 1200

\* p.collectTimer >= 1.2
DwellOver_AtLeast(collectTimer) == collectTimer >= DWELL_TIME

\* p.collectTimer > 1.2
DwellOver(collectTimer) == collectTimer > DWELL_TIME

\* Fy = p.charge * field.y - p.mass * MARTIAN_GRAVITY
UpwardForce(p, field) == p.charge * field.y - (p.mass * MARTIAN_GRAVITY) \div 100

\* upwardForce > ADHESION_PER_AREA, the contact area left out
Detaches_PerArea(p, upwardForce) == upwardForce > ADHESION_PER_AREA

\* upwardForce < p.adhesion
Detaches_Reversed(p, upwardForce) == upwardForce < p.adhesion

\* upwardForce > p.adhesion
Detaches(p, upwardForce) == upwardForce > p.adhesion

\* v.multiplyScalar(1 - DRAG_COEFF * dt) for one component
Drag(v, dt) ==
  LET factor == 10000 - (DRAG_COEFF * dt) \div 10
  IN  (v \div 10000) * factor + ((v % 10000) * factor) \div 10000

\* the trench collection test with the escape hexagon as its outer edge
InTrench_ToBounds(position) ==
  /\ ~isInsideHex(position, TRENCH_INNER_SCALE)
  /\ position.y < BASE_THICKNESS + CARTRIDGE_HEIGHT * 2
  /\ isInsideHex(position, BOUNDS_SCALE)

\* the trench collection test on the integrated position
InTrench(position) ==
  /\ ~isInsideHex(position, TRENCH_INNER_SCALE)
  /\ position.y < BASE_THICKNESS + CARTRIDGE_HEIGHT * 2
  /\ isInsideHex(position, TRENCH_OUTER_SCALE)

\* the escape test with && in place of ||
Escaped_Both(position) ==
  /\ ~isInsideHex(position, BOUNDS_SCALE)
  /\ position.y > MAX_DUST_HEIGHT

\* the escape test on the height alone
Escaped_HeightOnly(position) == position.y > MAX_DUST_HEIGHT

\* the bounds / escape test on the integrated position
Escaped(position) ==
  \/ ~isInsideHex(position, BOUNDS_SCALE)
  \/ position.y > MAX_DUST_HEIGHT

\* The free integration of one particle up to the position update (force,
\* drag, position), p already detached
Advance(p, field, Fy, dt) ==
  LET Fx == p.charge * field.x
      Fz == p.charge * field.z
      ax == Fx \div p.mass
      ay == Fy \div p.mass
      az == Fz \div p.mass
      vx == Drag(p.velocity.x + ax * dt, dt)
      vy == Drag(p.velocity.y + ay * dt, dt)
      vz == Drag(p.velocity.z + az * dt, dt)
      x == p.position.x + (vx * dt) \div 100
      y == p.position.y + (vy * dt) \div 100
      z == p.position.z + (vz * dt) \div 100
  IN  [p EXCEPT !.position = Vector3(x, y, z), !.velocity = Vector3(vx, vy, vz)]

\* the panel collision without p.position.y = panelY
Bounce_Unclamped(q) ==
  IF q.position.y < PANEL_SURFACE_Y
  THEN [q EXCEPT !.velocity = Vector3((q.velocity.x * 92) \div 100,
                                      (q.velocity.y * (-22)) \div 100,
                                      (q.velocity.z * 92) \div 100)]
  ELSE q

\* panel collision / bounce
Bounce(q) ==
  IF q.position.y < PANEL_SURFACE_Y
  THEN [q EXCEPT !.position.y = PANEL_SURFACE_Y,
                 !.velocity = Vector3((q.velocity.x * 92) \div 100,
                                      (q.velocity.y * (-22)) \div 100,
                                      (q.velocity.z * 92) \div 100)]
  ELSE q

\* The free integration of one particle (force, drag, position, bounce),
\* p already detached: the record before the collection and escape tests
Integrate(p, field, Fy, dt) == Bounce(Advance(p, field, Fy, dt))

\* the else branch of the attached test without velocity.setScalar(0)
Pinned_Moving(p) ==
  LET q == [p EXCEPT !.position.y = PANEL_SURFACE_Y]
  IN  [q EXCEPT !.meshPosition = q.position]

\* the else branch of the attached test: the particle stays on the panel
Pinned(p) ==
  LET q == [p EXCEPT !.velocity = Vector3(0, 0, 0),
                     !.position.y = PANEL_SURFACE_Y]
  IN  [q EXCEPT !.meshPosition = q.position]

\* the then branch of the attached test without p.attached = false
Lifted_StillAttached(p, upwardForce, dt) ==
  [p EXCEPT !.velocity.y = @ + ((upwardForce - p.adhesion) \div p.mass) * dt]

\* the then branch of the attached test without the velocity impulse
Lifted_NoImpulse(p, upwardForce, dt) == [p EXCEPT !.attached = FALSE]

\* the then branch of the attached test: the particle comes off the panel
Lifted(p, upwardForce, dt) ==
  [p EXCEPT !.attached = FALSE,
            !.velocity.y = @ + ((upwardForce - p.adhesion) \div p.mass) * dt]

\* the body of the trench test without p.mesh.position.copy(p.position)
Collect_Unrendered(p) ==
  [p EXCEPT !.collected = TRUE,
            !.collectTimer = 0,
            !.position.y = BASE_THICKNESS + CARTRIDGE_HEIGHT \div 2,
            !.velocity = Vector3(0, 0, 0)]

\* the body of the trench test without velocity.setScalar(0)
Collect_Moving(p) ==
  LET q == [p EXCEPT !.collected = TRUE,
                     !.collectTimer = 0,
                     !.position.y = BASE_THICKNESS + CARTRIDGE_HEIGHT \div 2]
  IN  [q EXCEPT !.meshPosition = q.position]

\* the body of the trench test: the particle is collected
Collect(p) ==
  LET q == [p EXCEPT !.collected = TRUE,
                     !.collectTimer = 0,
                     !.position.y = BASE_THICKNESS + CARTRIDGE_HEIGHT \div 2,
                     !.velocity = Vector3(0, 0, 0)]
  IN  [q EXCEPT !.meshPosition = q.position]

\* the collected branch without p.collectTimer += dt
Wait_Frozen(p, dt) == p

\* p.collectTimer = dt in place of p.collectTimer += dt
Wait_Restart(p, dt) == [p EXCEPT !.collectTimer = dt]

\* p.collectTimer += dt, the one assignment of the collected branch
Wait(p, dt) == [p EXCEPT !.collectTimer = @ + dt]

\* the outcome of one pass of the loop body: the record, the branch the
\* pass ended in, whether the pass cleared p.attached, and the position
\* the tests of the pass saw
Outcome(p, path, detached, integrated) ==
  [p |-> p, path |-> path, detached |-> detached, integrated |-> integrated]

\* One pass of the loop body of stepDust over particle p, up to the calls
\* of respawnParticle
LoopBody(p, dt, time) ==
  IF p.collected
  THEN LET q == Wait(p, dt)
       IN  Outcome(q, IF DwellOver(q.collectTimer) THEN "dwell" ELSE "wait",
                   FALSE, q.position)
  ELSE LET field == computeFieldAt(p.position, time)
           Fy == UpwardForce(p, field)
       IN  IF p.attached /\ ~Detaches(p, Fy)
           THEN Outcome(Pinned(p), "pinned", FALSE, Pinned(p).position)
           ELSE LET q == Integrate(IF p.attached THEN Lifted(p, Fy, dt) ELSE p,
                                   field, Fy, dt)
                IN  IF InTrench(q.position)
                    THEN Outcome(Collect(q), "collect", p.attached, q.position)
                    ELSE IF Escaped(q.position)
                    THEN Outcome(q, "escape", p.attached, q.position)
                    ELSE Outcome([q EXCEPT !.meshPosition = q.position],
                                 "free", p.attached, q.position)

\* the branches of the loop body that call respawnParticle(p)
Respawns(path) == path \in {"dwell", "escape"}

\* ------------------------------------------------------------------------
\* Visual modes: MODE_PRESETS, applyPreset, applyMode, the keydown handler
\* ------------------------------------------------------------------------
\* numbers in hundredths, colours as the integer of their hex literal
MODE_PRESETS ==
  [blueprint |->
    [cover |-> [color |-> 13951999, transmission |-> 97, opacity |-> 16, roughness |-> 3, metalness |-> 2, clearcoat |-> 95, clearcoatRoughness |-> 4, ior |-> 152, envMapIntensity |-> 180],
     substrate |-> [color |-> 8102620, transmission |-> 70, opacity |-> 90, roughness |-> 15, metalness |-> 3, clearcoat |-> 45, clearcoatRoughness |-> 23, ior |-> 148, envMapIntensity |-> 140],
     panel |-> [color |-> 10466525, metalness |-> 75, roughness |-> 32, bumpScale |-> 9, envMapIntensity |-> 110],
     lanes |-> [color |-> 16041590, metalness |-> 98, roughness |-> 16, emissive |-> 3349504, emissiveIntensity |-> 40],
     frame |-> [color |-> 2830392, metalness |-> 90, roughness |-> 28],
     chassis |-> [color |-> 1382689, metalness |-> 92, roughness |-> 40],
     rail |-> [color |-> 3225409, metalness |-> 90, roughness |-> 32],
     connector |-> [color |-> 16037460, metalness |-> 100, roughness |-> 26, emissive |-> 3875840, emissiveIntensity |-> 25],
     docking |-> [color |-> 6186610, metalness |-> 80, roughness |-> 34],
     conduit |-> [color |-> 1514274, metalness |-> 50, roughness |-> 65]],
   concept |->
    [cover |-> [color |-> 15397375, transmission |-> 80, opacity |-> 30, roughness |-> 6, metalness |-> 6, clearcoat |-> 55, clearcoatRoughness |-> 20, ior |-> 149, envMapIntensity |-> 100],
     substrate |-> [color |-> 10862044, transmission |-> 55, opacity |-> 92, roughness |-> 23, metalness |-> 4, clearcoat |-> 25, clearcoatRoughness |-> 30, ior |-> 145, envMapIntensity |-> 90],
     panel |-> [color |-> 12241382, metalness |-> 55, roughness |-> 50, bumpScale |-> 5, envMapIntensity |-> 80],
     lanes |-> [color |-> 16765066, metalness |-> 75, roughness |-> 25, emissive |-> 2363648, emissiveIntensity |-> 12],
     frame |-> [color |-> 4937056, metalness |-> 70, roughness |-> 45],
     chassis |-> [color |-> 2501685, metalness |-> 70, roughness |-> 54],
     rail |-> [color |-> 5660523, metalness |-> 60, roughness |-> 50],
     connector |-> [color |-> 14991226, metalness |-> 80, roughness |-> 40, emissive |-> 2363392, emissiveIntensity |-> 12],
     docking |-> [color |-> 7371404, metalness |-> 60, roughness |-> 48],
     conduit |-> [color |-> 3422788, metalness |-> 40, roughness |-> 65]]]

\* the value a property has from its material's constructor
AsCreated == 0 - 1

\* the properties a preset can set on a THREE.MeshStandardMaterial, and the
\* ones a THREE.MeshPhysicalMaterial adds
StandardProperties ==
  {"color", "metalness", "roughness", "opacity", "envMapIntensity",
   "emissive", "emissiveIntensity", "bumpScale"}
PhysicalProperties ==
  StandardProperties \cup {"transmission", "clearcoat", "clearcoatRoughness", "ior"}

\* the material objects createModule builds and hands out in `materials`
MaterialObjects ==
  {"coverMaterial", "substrateMaterial", "panelMaterial", "laneMaterial",
   "frameMat", "chassisMat", "dockingMat", "connectorMat", "conduitMat"}

MaterialProperties(object) ==
  IF object \in {"coverMaterial", "substrateMaterial"}
  THEN PhysicalProperties ELSE StandardProperties

\* const materials: ModuleMaterials = { ... }: the object each entry refers to
ModuleMaterials ==
  [cover |-> "coverMaterial", substrate |-> "substrateMaterial",
   panel |-> "panelMaterial", lanes |-> "laneMaterial", frame |-> "frameMat",
   chassis |-> "chassisMat", rail |-> "dockingMat", connector |-> "connectorMat",
   docking |-> "dockingMat", conduit |-> "conduitMat"]

\* the order in which applyMode goes through the entries
ModeOrder ==
  <<"cover", "substrate", "panel", "lanes", "frame", "chassis", "rail",
    "connector", "docking", "conduit">>

\* the material objects as createModule leaves them
createModule ==
  [object \in MaterialObjects |->
     [property \in MaterialProperties(object) \cup {"needsUpdate"} |-> AsCreated]]

\* applyPreset(material, preset): every property the preset defines and the
\* material has is assigned, then needsUpdate is set
applyPreset(material, preset) ==
  [property \in DOMAIN material |->
     IF property = "needsUpdate" THEN 1
     ELSE IF property \in DOMAIN preset THEN preset[property]
     ELSE material[property]]

StatusText(mode) ==
  IF mode = "concept"
  THEN "Mode: Concept Demo (benchtop buildable today)"
  ELSE "Mode: Blueprint (high-grade reference)"

\* the ten applyPreset calls of applyMode from the k-th on, in order
RECURSIVE ApplyFrom(_, _, _)
ApplyFrom(store, mode, k) ==
  IF k > Len(ModeOrder) THEN store
  ELSE LET entry  == ModeOrder[k]
           object == ModuleMaterials[entry]
       IN  ApplyFrom([store EXCEPT ![object] =
                        applyPreset(@, MODE_PRESETS[mode][entry])],
                     mode, k + 1)

\* applyMode(mode, materials, statusEl)
applyMode(v, mode) ==
  [v EXCEPT !.materials = ApplyFrom(v.materials, mode, 1),
            !.statusText = IF v.statusEl THEN StatusText(mode) ELSE @,
            !.applied = @ + 1]

\* the page as the module leaves it: applyMode('blueprint', ...), then
\* let currentMode = 'blueprint'; statusEl is whether the page has an
\* element with id mode-status
Loaded(statusEl) ==
  applyMode([currentMode |-> "blueprint", materials |-> createModule,
             statusEl |-> statusEl, statusText |-> "", keys |-> <<>>,
             applied |-> 0],
            "blueprint")

\* The keydown handler without its currentMode tests: the key's mode is
\* applied on every press.
keydown_Always(v, key) ==
  LET one == IF key = "1"
             THEN applyMode([v EXCEPT !.currentMode = "concept"], "concept")
             ELSE v
  IN  IF key = "2"
      THEN applyMode([one EXCEPT !.currentMode = "blueprint"], "blueprint")
      ELSE one

\* the keydown handler: its two if statements, one after the other
keydown(v, key) ==
  LET one == IF key = "1" /\ v.currentMode # "concept"
             THEN applyMode([v EXCEPT !.currentMode = "concept"], "concept")
             ELSE v
  IN  IF key = "2" /\ one.currentMode # "blueprint"
      THEN applyMode([one EXCEPT !.currentMode = "blueprint"], "blueprint")
      ELSE one

\* ------------------------------------------------------------------------
\* The simulation: createDustField, then stepDust once per frame
\* ------------------------------------------------------------------------
\* number of particle slots the model keeps (NUM_DUST_PARTICLES = 260)
NumParticles == 2

\* frame times clock.getDelta() delivers, in ms
FrameDeltas == {0, 300, 2224}

\* values of clock.elapsedTime handed to stepDust, in ms
FrameTimes == {6, 18}

\* the draws of Math.random() the model takes in respawnParticle: for the
\* radius and the charge (a light grain the field can lift and a heavy one
\* it cannot), the candidate points, the height, the velocity
GrainDraws == {<<0, 750>>, <<999, 750>>}
PointDraws == {<<0, 0>>, <<550, 500>>}
HeightDraws == {0}
VelocityDraws == {<<0, 500>>}

SpawnDraws ==
  {SpawnDraw(g[1], g[2], point, uy, uv[1], uv[2]) :
     g \in GrainDraws, point \in samplePointInHex(88, PointDraws),
     uy \in HeightDraws, uv \in VelocityDraws}

Slots == 1..NumParticles

VARIABLES
  particles,   \* the array createDustField returns, one DustParticle per slot
  dt,          \* argument dt of the latest stepDust call
  time,        \* argument time of the latest stepDust call
  last,        \* per slot: how the latest pass of the loop body ended
  dwell,       \* per slot: time stepped and respawns since it was collected
  hex,         \* a containment query: the point, two scales, the two answers
  drift,       \* the value of the shared vector DIRECTIONAL_DRIFT
  fieldCall,   \* a computeFieldAt call: its arguments, what it returned, its
               \* position argument as it left it, and its laneIndex
  sampler,     \* a samplePointInHex call: its scale, the candidates it has
               \* rejected, its local p, and whether it has returned p
  viewer,      \* the mode toggle: currentMode, the material objects, the
               \* status element, the keys pressed, the applyMode calls made
  frame        \* the parity of the frames the running animation loop has
               \* rendered

vars == <<particles, dt, time, last, dwell, hex, drift, fieldCall, sampler, viewer, frame>>

\* no samplePointInHex call running
NoSample == [scale |-> 88, tries |-> 0, done |-> FALSE, p |-> Vector3(0, 0, 0)]

\* no computeFieldAt call made
NoFieldCall == [position |-> Vector3(0, 0, 0), time |-> 0,
                result |-> Vector3(0, 0, 0), argument |-> Vector3(0, 0, 0),
                lane |-> 0, done |-> FALSE]

\* no containment query made
NoQuery == [point |-> Vector3(0, 0, 0), s1 |-> 100, s2 |-> 100,
            in1 |-> FALSE, in2 |-> FALSE, done |-> FALSE]

\* createDustField(scene)
createDustField(draws) == [i \in Slots |-> spawnDustParticle(i, draws[i])]

Init ==
  /\ \E draws \in [Slots -> SpawnDraws] : particles = createDustField(draws)
  /\ dt = 0
  /\ time = 0
  /\ last = [i \in Slots |->
               [path |-> "spawn", detached |-> FALSE, integrated |-> particles[i].position]]
  /\ dwell = [i \in Slots |-> [sum |-> 0, respawns |-> 0]]
  /\ hex = NoQuery
  /\ drift = DIRECTIONAL_DRIFT
  /\ fieldCall = NoFieldCall
  /\ sampler = NoSample
  /\ viewer = Loaded(TRUE)
  /\ frame = 0

\* One pass of the loop body that spawns a new particle where the loop
\* body calls respawnParticle(p)
LoopPass_Realloc(p, delta, elapsed) ==
  LET body == LoopBody(p, delta, elapsed)
  IN  IF Respawns(body.path)
      THEN {[body EXCEPT !.p = spawnDustParticle(p.id + NumParticles, d)] : d \in SpawnDraws}
      ELSE {body}

\* One pass of the loop body with its call of respawnParticle(p), when it
\* makes one: the outcomes over the draws the call may take
LoopPass(p, delta, elapsed) ==
  LET body == LoopBody(p, delta, elapsed)
  IN  IF Respawns(body.path)
      THEN {[body EXCEPT !.p = respawnParticle(body.p, d)] : d \in SpawnDraws}
      ELSE {body}

\* the loop with every pass reading the first particle of the array
RECURSIVE Loop_First(_, _, _)
Loop_First(n, delta, elapsed) ==
  IF n = 0 THEN {<<>>}
  ELSE {Append(s, o) : s \in Loop_First(n - 1, delta, elapsed),
                       o \in LoopPass(particles[1], delta, elapsed)}

\* for (const p of particles): the outcomes of the passes over slots 1..n
RECURSIVE Loop(_, _, _)
Loop(n, delta, elapsed) ==
  IF n = 0 THEN {<<>>}
  ELSE {Append(s, o) : s \in Loop(n - 1, delta, elapsed),
                       o \in LoopPass(particles[n], delta, elapsed)}

\* the time stepped and the respawns of a slot since it was collected
Dwell(d, path, delta) ==
  CASE path = "collect" -> [sum |-> 0, respawns |-> 0]
    [] path = "wait" -> [d EXCEPT !.sum = @ + delta]
    [] path = "dwell" -> [sum |-> d.sum + delta, respawns |-> d.respawns + 1]
    [] OTHER -> d

\* stepDust(particles, dt, time): the whole loop over the array
stepDust(delta, elapsed) ==
  \E outs \in Loop(NumParticles, delta, elapsed) :
    /\ particles' = [i \in Slots |-> outs[i].p]
    /\ dt' = delta
    /\ time' = elapsed
    /\ last' = [i \in Slots |->
                  [path |-> outs[i].path,
                   detached |-> outs[i].detached,
                   integrated |-> outs[i].integrated]]
    /\ dwell' = [i \in Slots |-> Dwell(dwell[i], outs[i].path, delta)]
    /\ UNCHANGED <<hex, drift, fieldCall, sampler, viewer>>

\* animate(): one frame
Animate ==
  /\ \E delta \in FrameDeltas, elapsed \in FrameTimes : stepDust(delta, elapsed)
  /\ UNCHANGED frame

Next == Animate

Spec == Init /\ [][Next]_vars

\* ------------------------------------------------------------------------
\* isInsideHex as a function: a point and two scales are drawn, and the
\* function is applied to the point at each scale
\* ------------------------------------------------------------------------
\* coordinates of the points queried: the centroid, the spawn point, and
\* the flats, the vertices and the outside of the nested hexagons
HexCoords == {-2700, -2128, -1938, -1672, -968, 0, 193, 968, 1672, 1936, 2244, 2700}
HexHeights == {0, PANEL_SURFACE_Y}
HexPoints == {Vector3(x, y, z) : x \in HexCoords, y \in HexHeights, z \in HexCoords}

\* the scales queried: zero, the spawn area, the panel, the trench, the bounds
HexScales == {0, 88, 100, TRENCH_INNER_SCALE, TRENCH_OUTER_SCALE, BOUNDS_SCALE}

InitHex ==
  /\ particles = createDustField([i \in Slots |-> CHOOSE d \in SpawnDraws : TRUE])
  /\ dt = 0
  /\ time = 0
  /\ last = [i \in Slots |->
               [path |-> "spawn", detached |-> FALSE, integrated |-> particles[i].position]]
  /\ dwell = [i \in Slots |-> [sum |-> 0, respawns |-> 0]]
  /\ \E point \in HexPoints, s1 \in HexScales, s2 \in HexScales :
       hex = [NoQuery EXCEPT !.point = point, !.s1 = s1, !.s2 = s2]
  /\ drift = DIRECTIONAL_DRIFT
  /\ fieldCall = NoFieldCall
  /\ sampler = NoSample
  /\ viewer = Loaded(TRUE)
  /\ frame = 0

\* isInsideHex(point, s1) and isInsideHex(point, s2)
Contains ==
  /\ ~hex.done
  /\ hex' = [hex EXCEPT !.in1 = isInsideHex(hex.point, hex.s1),
                        !.in2 = isInsideHex(hex.point, hex.s2),
                        !.done = TRUE]
  /\ UNCHANGED <<particles, dt, time, last, dwell, drift, fieldCall, sampler, viewer, frame>>

NextHex == Contains

SpecHex == InitHex /\ [][NextHex]_vars

\* ------------------------------------------------------------------------
\* computeFieldAt as a function: calls at drawn positions and times, one
\* after another, on the one shared DIRECTIONAL_DRIFT
\* ------------------------------------------------------------------------
\* the dust field as createDustField leaves it, no frame stepped
DustAtRest ==
  /\ particles = createDustField([i \in Slots |-> CHOOSE d \in SpawnDraws : TRUE])
  /\ dt = 0
  /\ time = 0
  /\ last = [i \in Slots |->
               [path |-> "spawn", detached |-> FALSE, integrated |-> particles[i].position]]
  /\ dwell = [i \in Slots |-> [sum |-> 0, respawns |-> 0]]

\* positions the field is evaluated at: the origin, the negative x axis
\* (angle PI), every quadrant, near the centre and near the rim
FieldCoords == {-1900, -193, 0, 193, 1900}
FieldPositions == {Vector3(x, PANEL_SURFACE_Y, z) : x \in FieldCoords, z \in FieldCoords}

\* times the field is evaluated at, in ms
FieldTimes == {0, 3, 6, 10, 18, 21}

InitField ==
  /\ DustAtRest
  /\ hex = NoQuery
  /\ drift = DIRECTIONAL_DRIFT
  /\ fieldCall = NoFieldCall
  /\ sampler = NoSample
  /\ viewer = Loaded(TRUE)
  /\ frame = 0

\* computeFieldAt(position, elapsed)
Evaluate ==
  \E position \in FieldPositions, elapsed \in FieldTimes :
    LET call == FieldCall(position, elapsed, drift)
    IN  /\ fieldCall' = [position |-> position, time |-> elapsed,
                         result |-> call.result, argument |-> call.position,
                         lane |-> LaneIndex(position), done |-> TRUE]
        /\ drift' = call.drift
        /\ UNCHANGED <<particles, dt, time, last, dwell, hex, sampler, viewer, frame>>

NextField == Evaluate

SpecField == InitField /\ [][NextField]_vars

\* ------------------------------------------------------------------------
\* samplePointInHex as a loop: one candidate drawn and tested per step
\* ------------------------------------------------------------------------
\* the scales sampled: zero, the spawn area, the default, the panel
SampleScales == {0, 88, 90, 100}

\* the values of the two Math.random() calls of one candidate
SampleUnits == {0, 250, 500, 750, 999}
SampleDraws == SampleUnits \X SampleUnits

\* the rejected candidates are counted up to MaxTries, and no further
MaxTries == 3

InitSample ==
  /\ DustAtRest
  /\ hex = NoQuery
  /\ drift = DIRECTIONAL_DRIFT
  /\ fieldCall = NoFieldCall
  /\ \E scale \in SampleScales : sampler = [NoSample EXCEPT !.scale = scale]
  /\ viewer = Loaded(TRUE)
  /\ frame = 0

\* one turn of while (true): a candidate is drawn; if (isInsideHex(p, scale))
\* return p; otherwise the loop goes round again
Draw ==
  /\ ~sampler.done
  /\ \E u \in SampleDraws :
       LET p == HexCandidate(sampler.scale, u)
       IN  sampler' = IF isInsideHex(p, sampler.scale)
                      THEN [sampler EXCEPT !.done = TRUE, !.p = p]
                      ELSE [sampler EXCEPT !.tries = Min(@ + 1, MaxTries), !.p = p]
  /\ UNCHANGED <<particles, dt, time, last, dwell, hex, drift, fieldCall, viewer, frame>>

NextSample == Draw

\* the loop keeps running until it returns
SpecSample == InitSample /\ [][NextSample]_vars /\ WF_vars(Draw)

\* ------------------------------------------------------------------------
\* The simulation with a long frame that carries particles past the trench
\* ------------------------------------------------------------------------
\* frame times: none, and one long enough for the drag factor
\* 1 - DRAG_COEFF * dt to pass zero
TrenchDeltas == {0, 2223}

\* values of clock.elapsedTime handed to stepDust
TrenchTimes == {0, 2}

AnimateTrench ==
  /\ \E delta \in TrenchDeltas, elapsed \in TrenchTimes : stepDust(delta, elapsed)
  /\ UNCHANGED frame

NextTrench == AnimateTrench

SpecTrench == Init /\ [][NextTrench]_vars

\* ------------------------------------------------------------------------
\* The simulation with frames that keep coming, every one of them taking time
\* ------------------------------------------------------------------------
\* frame times, all positive
LiveDeltas == {300, 2224}

\* animate() in the running loop: one more frame is rendered
AnimateLive ==
  /\ \E delta \in LiveDeltas, elapsed \in FrameTimes : stepDust(delta, elapsed)
  /\ frame' = 1 - frame

NextLive == AnimateLive

\* one more frame has been rendered
Rendered == frame' = 1 - frame

\* renderer.setAnimationLoop(animate): the renderer calls animate for every
\* frame, so a frame always follows. Every step of NextLive renders a frame
\* and nothing else does, so the condition says that the frames do not stop.
SpecLive == Init /\ [][NextLive]_vars /\ WF_frame(Rendered)

\* ------------------------------------------------------------------------
\* The mode toggle as a state machine: one keydown event per step
\* ------------------------------------------------------------------------
\* the keys pressed: the two mode keys and one other key
Keys == {"1", "2", "a"}

\* the number of key presses followed
MaxKeys == 4

InitMode ==
  /\ DustAtRest
  /\ hex = NoQuery
  /\ drift = DIRECTIONAL_DRIFT
  /\ fieldCall = NoFieldCall
  /\ sampler = NoSample
  /\ \E statusEl \in BOOLEAN : viewer = Loaded(statusEl)
  /\ frame = 0

\* a keydown event reaches the handler
KeyDown ==
  /\ Len(viewer.keys) < MaxKeys
  /\ \E key \in Keys :
       viewer' = [keydown(viewer, key) EXCEPT !.keys = Append(@, key)]
  /\ UNCHANGED <<particles, dt, time, last, dwell, hex, drift, fieldCall, sampler, frame>>

NextMode == KeyDown

SpecMode == InitMode /\ [][NextMode]_vars

\* ------------------------------------------------------------------------
\* Properties
\* ------------------------------------------------------------------------
Attached(p) == p.attached /\ ~p.collected
Free(p) == ~p.attached /\ ~p.collected
Collected(p) == p.collected

\* charge * Ey - mass * gravity > adhesion, Ey the field at the position of
\* p at the time of the step
OverThreshold(p, elapsed) ==
  p.charge * computeFieldAt(p.position, elapsed).y
    - (p.mass * MARTIAN_GRAVITY) \div 100 > p.adhesion

\* the step respawned the particle of the slot
Respawned(i) == last[i].path \in {"dwell", "escape"}

\* C1 as stated: an Attached particle over the adhesion threshold at the
\* start of a stepDust call is Free when the call returns.
C1_FreeAtReturn ==
  [][\A i \in Slots :
       (Attached(particles[i]) /\ OverThreshold(particles[i], time'))
         => Free(particles'[i])]_vars

\* C1: an Attached particle over the adhesion threshold at the start of a
\* stepDust call is detached and integrated by that call; when the call
\* returns it is Free, unless the trench test of the same call collected it
\* or the escape test of the same call respawned it.
C1_DetachesOnStep ==
  [][\A i \in Slots :
       Attached(particles[i])
         => \/ /\ last'[i].detached
               /\ last'[i].path \in {"free", "collect", "escape"}
               /\ last'[i].path = "free" => Free(particles'[i])
               /\ last'[i].path = "collect" => Collected(particles'[i])
               /\ last'[i].path = "escape" => Attached(particles'[i])
            \/ ~OverThreshold(particles[i], time')]_vars

\* a step detached a particle and left it Free
C1_Witness ==
  \E i \in Slots : last[i].detached /\ last[i].path = "free" /\ Free(particles[i])

\* C2: a Collected particle's collectTimer is the sum of the dt of the calls
\* since it was collected and never decreases; the particle is respawned
\* once, by the first call that takes the sum past the dwell time, however
\* the time is split into calls.
C2_OneRespawnPerDwell ==
  /\ [](\A i \in Slots :
          /\ Collected(particles[i])
               => /\ particles[i].collectTimer = dwell[i].sum
                  /\ dwell[i].sum <= DWELL_TIME
                  /\ dwell[i].respawns = 0
          /\ dwell[i].respawns <= 1
          /\ dwell[i].respawns = 1
               => dwell[i].sum > DWELL_TIME /\ ~Collected(particles[i])
          /\ dwell[i].sum > DWELL_TIME => dwell[i].respawns = 1)
  /\ [][\A i \in Slots :
          /\ (Collected(particles[i]) /\ Collected(particles'[i]))
               => /\ particles'[i].collectTimer = particles[i].collectTimer + dt'
                  /\ particles'[i].collectTimer >= particles[i].collectTimer
          /\ (Collected(particles[i]) /\ particles[i].collectTimer + dt' > DWELL_TIME)
               => /\ last'[i].path = "dwell"
                  /\ dwell'[i].respawns = 1
                  /\ Attached(particles'[i])
          /\ (Collected(particles[i]) /\ particles[i].collectTimer + dt' <= DWELL_TIME)
               => Collected(particles'[i]) /\ dwell'[i].respawns = 0]_vars

\* a particle was respawned by the fifth of five calls of 0.3 s
C2_Witness ==
  \E i \in Slots :
    /\ last[i].path = "dwell"
    /\ dt = 300
    /\ dwell[i].sum = 1500
    /\ dwell[i].respawns = 1

\* C3 as stated: a step takes a particle only along Attached->Attached,
\* Attached->Free, Free->Free, Free->Collected, Free->Attached (respawn on
\* escape), Collected->Attached (respawn after dwell) or Collected->Collected.
C3_ListedTransitions ==
  [][\A i \in Slots :
       /\ Attached(particles[i]) => last'[i].path \in {"pinned", "free"}
       /\ Free(particles[i]) => last'[i].path \in {"free", "collect", "escape"}
       /\ Collected(particles[i]) => last'[i].path \in {"wait", "dwell"}]_vars

\* C3: a step takes a particle along one of the listed transitions, or, in
\* the step in which an Attached particle detaches, from Attached to
\* Collected or from Attached through Free to a respawned Attached; no step
\* takes a particle from Collected to Free.
C3_Transitions ==
  [][\A i \in Slots :
       /\ Attached(particles[i])
            => last'[i].path \in {"pinned", "free", "collect", "escape"}
       /\ (Attached(particles[i]) /\ last'[i].path \in {"collect", "escape"})
            => last'[i].detached
       /\ Free(particles[i]) => last'[i].path \in {"free", "collect", "escape"}
       /\ Collected(particles[i])
            => last'[i].path \in {"wait", "dwell"} /\ ~Free(particles'[i])
       /\ last'[i].path = "pinned" => Attached(particles'[i])
       /\ last'[i].path = "free" => Free(particles'[i])
       /\ last'[i].path \in {"collect", "wait"} => Collected(particles'[i])
       /\ last'[i].path \in {"escape", "dwell"} => Attached(particles'[i])]_vars

\* a step took a particle from Attached to Collected
C3_Witness ==
  \E i \in Slots :
    last[i].detached /\ last[i].path = "collect" /\ Collected(particles[i])

\* the horizontal distance of the position from the origin is more than
\* BOUNDS_SCALE * HEX_RADIUS
Beyond(position) ==
  LET bound == (HEX_RADIUS * BOUNDS_SCALE) \div 100
      ax == IF position.x < 0 THEN -position.x ELSE position.x
      az == IF position.z < 0 THEN -position.z ELSE position.z
  IN  \/ ax > bound
      \/ az > bound
      \/ ax * ax + az * az > bound * bound

\* C4 as stated: after every stepDust call every particle is within
\* BOUNDS_SCALE * HEX_RADIUS of the origin horizontally, and a step respawns a
\* particle exactly when its integrated position is beyond that distance.
C4_RespawnExactlyBeyond ==
  \A i \in Slots :
    /\ ~Beyond(particles[i].position)
    /\ Respawned(i) <=> Beyond(last[i].integrated)

\* C4: after every stepDust call every particle is within
\* BOUNDS_SCALE * HEX_RADIUS of the origin horizontally, and a step respawns
\* a particle whenever its integrated position is beyond that distance (it
\* also respawns particles that are not: after the dwell time, and outside
\* the escape hexagon or above MAX_DUST_HEIGHT).
C4_RespawnWhenBeyond ==
  \A i \in Slots :
    /\ ~Beyond(particles[i].position)
    /\ Beyond(last[i].integrated) => Respawned(i)

\* a step respawned a particle whose integrated position was beyond the
\* distance
C4_Witness ==
  \E i \in Slots : last[i].path = "escape" /\ Beyond(last[i].integrated)

\* C5 as stated: for every point and every pair of scales s1 < s2, a point
\* inside the hexagon at scale s1 is inside the hexagon at scale s2.
C5_ScaleMonotonic ==
  (hex.done /\ hex.s1 < hex.s2 /\ hex.in1) => hex.in2

\* C6 as stated: isInsideHex of the origin at scale 0 is false.
C6_ZeroScaleOrigin ==
  (hex.done /\ hex.point.x = 0 /\ hex.point.z = 0 /\ hex.s1 = 0) => ~hex.in1

\* C7 as stated: a stepDust call that leaves an Attached particle under the
\* adhesion threshold leaves its position and velocity unchanged, except
\* that position.y is the surface height, the first call after a spawn or a
\* respawn included.
C7_ClampUnchanged ==
  [][\A i \in Slots :
       (Attached(particles[i]) /\ ~OverThreshold(particles[i], time'))
         => /\ particles'[i].position =
                 [particles[i].position EXCEPT !.y = PANEL_SURFACE_Y]
            /\ particles'[i].velocity = particles[i].velocity]_vars

\* C7: a stepDust call that leaves an Attached particle under the adhesion
\* threshold leaves its horizontal position unchanged, sets position.y to
\* the surface height and sets its velocity to zero; applied to a particle
\* that is already at rest at the surface height, it changes nothing.
C7_ClampIdempotent ==
  [][\A i \in Slots :
       Attached(particles[i])
         => \/ /\ last'[i].path = "pinned"
               /\ particles'[i] =
                    [particles[i] EXCEPT
                       !.position.y = PANEL_SURFACE_Y,
                       !.velocity = Vector3(0, 0, 0),
                       !.meshPosition =
                          [particles[i].position EXCEPT !.y = PANEL_SURFACE_Y]]
               /\ last[i].path = "pinned" => particles'[i] = particles[i]
            \/ OverThreshold(particles[i], time')]_vars

\* a step of dt > 0 clamped a particle: it is Attached, at rest, at the
\* surface height
C7_Witness ==
  \E i \in Slots :
    /\ last[i].path = "pinned"
    /\ dt > 0
    /\ Attached(particles[i])
    /\ particles[i].velocity = Vector3(0, 0, 0)
    /\ particles[i].position.y = PANEL_SURFACE_Y

\* C8: a particle that respawnParticle has just written, at creation, after
\* an escape or after the dwell time, is Attached with collectTimer 0,
\* radius within [DUST_RADIUS_MIN, DUST_RADIUS_MAX], charge within
\* [DUST_CHARGE_MIN, DUST_CHARGE_MAX] and adhesion ADHESION_PER_AREA * pi *
\* radius^2.
C8_RespawnResets ==
  \A i \in Slots :
    (last[i].path \in {"spawn", "escape", "dwell"})
      => /\ particles[i].attached
         /\ ~particles[i].collected
         /\ particles[i].collectTimer = 0
         /\ particles[i].radius >= DUST_RADIUS_MIN
         /\ particles[i].radius <= DUST_RADIUS_MAX
         /\ particles[i].charge >= DUST_CHARGE_MIN
         /\ particles[i].charge <= DUST_CHARGE_MAX
         /\ particles[i].adhesion =
              ADHESION_PER_AREA * PI_MILLI * particles[i].radius * particles[i].radius

\* a Collected particle whose timer had run past the dwell time was
\* respawned
C8_Witness ==
  \E i \in Slots : last[i].path = "dwell" /\ dwell[i].sum > DWELL_TIME

\* C9: the particle array keeps its length, and every slot keeps its record
\* and its mesh, across createDustField and every stepDust call.
C9_SlotsStable ==
  /\ DOMAIN particles = Slots
  /\ \A i \in Slots : particles[i].id = i /\ particles[i].mesh = i

\* one slot was respawned by a step that left another slot alone
C9_Witness ==
  \E i, j \in Slots :
    /\ i # j
    /\ Respawned(i)
    /\ ~Respawned(j)
    /\ particles[i].mesh = i

\* C10: every particle has mass > 0 and radius within
\* [DUST_RADIUS_MIN, DUST_RADIUS_MAX].
C10_MassAndRadius ==
  \A i \in Slots :
    /\ particles[i].mass > 0
    /\ particles[i].radius >= DUST_RADIUS_MIN
    /\ particles[i].radius <= DUST_RADIUS_MAX

\* a respawn drew the largest radius for a particle that had the smallest
C10_Witness ==
  \E i \in Slots :
    /\ Respawned(i)
    /\ particles[i].radius = sampleRadius(999)
    /\ particles[i].mass > 0

\* the point (x, z) lies in the closed regular hexagon of circumradius
\* HEX_RADIUS * scale centred at the origin, with vertices at 30, 90, ...
\* degrees: between the two flats at x = +-half and under the four slanted
\* edges that join (+-half, +-quarter) to (0, +-r)
InHexagon(x, z, scale) ==
  LET r == (HEX_RADIUS * scale) \div 100
      half == (r * 19) \div 22
      quarter == (r * 11) \div 22
      ax == IF x < 0 THEN -x ELSE x
      az == IF z < 0 THEN -z ELSE z
  IN  /\ ax <= half
      /\ half * az + (r - quarter) * ax <= half * r

\* C11: for every scale > 0 and every point, isInsideHex(point, scale) is
\* true exactly when (point.x, point.z) lies in the regular hexagon of
\* circumradius HEX_RADIUS * scale centred at the origin, whatever point.y
\* is; it is true at the origin.
C11_InsideIffInHexagon ==
  hex.done
    => /\ hex.s1 > 0 => (hex.in1 <=> InHexagon(hex.point.x, hex.point.z, hex.s1))
       /\ hex.s2 > 0 => (hex.in2 <=> InHexagon(hex.point.x, hex.point.z, hex.s2))
       /\ (hex.point.x = 0 /\ hex.point.z = 0 /\ hex.s1 > 0) => hex.in1

\* a point at the height of the panel surface was found outside the
\* hexagon of the spawn area and inside the hexagon of the panel
C11_Witness ==
  /\ hex.done
  /\ hex.point.y = PANEL_SURFACE_Y
  /\ hex.s1 = 88
  /\ hex.s2 = 100
  /\ ~hex.in1
  /\ hex.in2

C13_FieldPure ==
  /\ [](/\ drift = DIRECTIONAL_DRIFT
        /\ fieldCall.done
             => /\ fieldCall.result = computeFieldAt(fieldCall.position, fieldCall.time)
                /\ fieldCall.argument = fieldCall.position)
  /\ [][/\ particles' = particles
        /\ fieldCall.done /\ fieldCall'.position = fieldCall.position
                          /\ fieldCall'.time = fieldCall.time
             => fieldCall'.result = fieldCall.result]_vars

\* a call on the negative x axis returned a field with a horizontal part
C13_Witness ==
  /\ fieldCall.done
  /\ fieldCall.position.x < 0
  /\ fieldCall.position.z = 0
  /\ fieldCall.result.x # 0
  /\ fieldCall.result.y > 0

\* C14 as stated: every samplePointInHex call terminates: after a bounded
\* number of rejected candidates it stops retrying and returns (the
\* centroid).
C14_SamplerReturns == <>sampler.done

\* the mode of the most recent '1' or '2' key: '1' is concept, '2' is
\* blueprint, and blueprint when neither was pressed
ExpectedMode(keys) ==
  LET pressed == {k \in 1..Len(keys) : keys[k] \in {"1", "2"}}
  IN  IF pressed = {} THEN "blueprint"
      ELSE LET recent == CHOOSE k \in pressed : \A j \in pressed : j <= k
           IN  IF keys[recent] = "1" THEN "concept" ELSE "blueprint"

\* the material of an entry of `materials` has every value of the entry's
\* preset in this mode
PresetInForce(v, mode, entry) ==
  \A property \in DOMAIN MODE_PRESETS[mode][entry] :
    v.materials[ModuleMaterials[entry]][property] = MODE_PRESETS[mode][entry][property]

\* the entries of `materials` whose preset is the last one applyMode applies
\* to their material object (rail and docking are both dockingMat, and
\* docking comes later)
LastApplied ==
  {ModeOrder[k] : k \in {k \in 1..Len(ModeOrder) :
     \A j \in (k + 1)..Len(ModeOrder) :
       ModuleMaterials[ModeOrder[j]] # ModuleMaterials[ModeOrder[k]]}}

C16_CollectedIffInRing ==
  [][\A i \in Slots :
       Free(particles[i]) =>
         LET q == last'[i].integrated
             p == particles'[i]
         IN  /\ (Collected(p) /\ ~Respawned(i)')
                  <=> /\ isInsideHex(q, TRENCH_OUTER_SCALE)
                      /\ ~isInsideHex(q, TRENCH_INNER_SCALE)
                      /\ q.y < BASE_THICKNESS + CARTRIDGE_HEIGHT * 2
             /\ Collected(p) =>
                  /\ p.velocity = Vector3(0, 0, 0)
                  /\ p.position = Vector3(q.x, BASE_THICKNESS + CARTRIDGE_HEIGHT \div 2, q.z)
                  /\ p.collectTimer = 0]_vars

\* a particle that was Free before the call has been collected by it, with
\* a horizontal position off the centre
C16_Witness ==
  \E i \in Slots :
    /\ last[i].path = "collect"
    /\ ~last[i].detached
    /\ Collected(particles[i])
    /\ particles[i].position.x # 0

\* outside the escape hexagon or above the maximum height
OutOfBounds(position) ==
  \/ ~isInsideHex(position, BOUNDS_SCALE)
  \/ position.y > MAX_DUST_HEIGHT

\* C17: a Free particle that a call does not collect and whose integrated
\* position is outside the escape hexagon or above MAX_DUST_HEIGHT is
\* respawned by that call, and after every call no particle is outside the
\* escape hexagon or above MAX_DUST_HEIGHT.
C17_EscapedAreRespawned ==
  /\ [](\A i \in Slots : ~OutOfBounds(particles[i].position))
  /\ [][\A i \in Slots :
          (/\ Free(particles[i])
           /\ ~Collected(particles'[i])
           /\ OutOfBounds(last'[i].integrated))
            => /\ Respawned(i)'
               /\ Attached(particles'[i])
               /\ particles'[i].collectTimer = 0]_vars

\* a particle that was Free before the call left the escape hexagon below
\* the maximum height and was respawned
C17_Witness ==
  \E i \in Slots :
    /\ last[i].path = "escape"
    /\ ~last[i].detached
    /\ ~isInsideHex(last[i].integrated, BOUNDS_SCALE)
    /\ last[i].integrated.y <= MAX_DUST_HEIGHT
    /\ Attached(particles[i])

\* C18: a call on a Collected particle whose timer plus dt is at most the
\* dwell time changes its collectTimer and nothing else, whatever the time
\* of the call (no field enters the result), and the particle is respawned
\* only when the timer plus dt is strictly more than the dwell time: at
\* exactly the dwell time it stays Collected.
C18_CollectedOnlyCounts ==
  [][\A i \in Slots :
       Collected(particles[i]) =>
         LET sum == particles[i].collectTimer + dt'
         IN  /\ sum <= DWELL_TIME
                  => /\ particles'[i] = [particles[i] EXCEPT !.collectTimer = sum]
                     /\ last'[i].path = "wait"
                     /\ \A t \in FrameTimes :
                          LoopBody(particles[i], dt', t).p = particles'[i]
             /\ Respawned(i)' => sum > DWELL_TIME
             /\ sum = DWELL_TIME => Collected(particles'[i])]_vars

\* a Collected particle whose timer has just reached the dwell time exactly
C18_Witness ==
  \E i \in Slots :
    /\ Collected(particles[i])
    /\ particles[i].collectTimer = DWELL_TIME
    /\ last[i].path = "wait"
    /\ dt > 0

\* lower than the collection height
Low(position) == position.y < BASE_THICKNESS + CARTRIDGE_HEIGHT * 2

SPAWN_SCALE == 88

\* C20: a particle that has just been spawned or respawned is where
\* isInsideHex(position, 0.88) is true, and so is neither in the collector
\* ring (outside the hexagon of TRENCH_INNER_SCALE and inside that of
\* TRENCH_OUTER_SCALE) nor outside the escape hexagon.
C20_SpawnInsideHex ==
  \A i \in Slots :
    last[i].path \in {"spawn", "dwell", "escape"}
      => /\ isInsideHex(particles[i].position, SPAWN_SCALE)
         /\ ~(/\ ~isInsideHex(particles[i].position, TRENCH_INNER_SCALE)
              /\ isInsideHex(particles[i].position, TRENCH_OUTER_SCALE))
         /\ isInsideHex(particles[i].position, BOUNDS_SCALE)
         /\ particles[i].meshPosition = particles[i].position

\* a particle has been respawned, after an escape, at a point off the centre
C20_Witness ==
  \E i \in Slots :
    /\ last[i].path = "escape"
    /\ particles[i].position.x # 0
    /\ isInsideHex(particles[i].position, SPAWN_SCALE)
    /\ ~isInsideHex(last[i].integrated, BOUNDS_SCALE)

\* C21: when the integrated position of a Free particle is below
\* PANEL_SURFACE_Y the step puts position.y at PANEL_SURFACE_Y and multiplies
\* velocity.y by -0.22 and velocity.x and velocity.z by 0.92, and after
\* every stepDust call every particle has position.y >= PANEL_SURFACE_Y.
C21_BounceKeepsAbove ==
  /\ [](\A i \in Slots : particles[i].position.y >= PANEL_SURFACE_Y)
  /\ [][\A i \in Slots :
          Free(particles[i]) =>
            \E q \in {Advance(particles[i],
                              computeFieldAt(particles[i].position, time'),
                              UpwardForce(particles[i],
                                          computeFieldAt(particles[i].position, time')),
                              dt')} :
              q.position.y < PANEL_SURFACE_Y
                => /\ last'[i].integrated =
                        Vector3(q.position.x, PANEL_SURFACE_Y, q.position.z)
                   /\ last'[i].path = "free"
                        => /\ particles'[i].position = last'[i].integrated
                           /\ particles'[i].velocity =
                                Vector3((q.velocity.x * 92) \div 100,
                                        (q.velocity.y * (-22)) \div 100,
                                        (q.velocity.z * 92) \div 100)]_vars

\* a particle that was Free before the call has come down on the panel and
\* is still Free, moving, at the surface height
C21_Witness ==
  \E i \in Slots :
    /\ last[i].path = "free"
    /\ ~last[i].detached
    /\ dt > 0
    /\ Free(particles[i])
    /\ particles[i].position.y = PANEL_SURFACE_Y
    /\ particles[i].velocity.y > 0

\* (x, z) is on an edge or a vertex of the hexagon of circumradius
\* HEX_RADIUS * scale
OnHexagon(x, z, scale) ==
  LET r == (HEX_RADIUS * scale) \div 100
      half == (r * 19) \div 22
      quarter == (r * 11) \div 22
      ax == IF x < 0 THEN -x ELSE x
      az == IF z < 0 THEN -z ELSE z
  IN  \/ ax = half /\ az <= quarter
      \/ ax <= half /\ half * az + (r - quarter) * ax = half * r

\* two edges of the hexagon have non-zero cross products of opposite signs
\* with the point
OpposedCrosses(point, scale) ==
  \E i, j \in 1..6 :
    /\ EdgeCross(hexVertices(scale), i, point) > 0
    /\ EdgeCross(hexVertices(scale), j, point) < 0

\* C22: isInsideHex is false only when two edges have non-zero cross
\* products of opposite signs, an edge with a zero cross product being
\* skipped; so for scale > 0 a point exactly on an edge or a vertex of the
\* scaled hexagon is inside.
C22_EdgeIsInside ==
  hex.done
    => /\ hex.in1 <=> ~OpposedCrosses(hex.point, hex.s1)
       /\ hex.in2 <=> ~OpposedCrosses(hex.point, hex.s2)
       /\ (hex.s1 > 0 /\ OnHexagon(hex.point.x, hex.point.z, hex.s1)) => hex.in1
       /\ (hex.s2 > 0 /\ OnHexagon(hex.point.x, hex.point.z, hex.s2)) => hex.in2

\* the middle of an edge of the spawn hexagon, where that edge's cross
\* product is zero, was found inside
C22_Witness ==
  /\ hex.done
  /\ hex.point.x = 1672
  /\ hex.point.z = 0
  /\ hex.s1 = 88
  /\ hex.in1
  /\ EdgeCross(hexVertices(hex.s1), 6, hex.point) = 0

\* C23: for every position, the origin and the negative x axis (angle PI)
\* included, the sector index computeFieldAt uses for the phase is in
\* 0 .. ELECTRODE_SEGMENTS - 1: it is the floor of (angle + PI) / (2 PI) *
\* ELECTRODE_SEGMENTS clamped to that range.
C23_LaneInRange ==
  fieldCall.done
    => LET sector == SectorFloor(fieldCall.position.x, fieldCall.position.z)
       IN  /\ fieldCall.lane \in 0..(ELECTRODE_SEGMENTS - 1)
           /\ sector \in 0..(ELECTRODE_SEGMENTS - 1) => fieldCall.lane = sector
           /\ sector >= ELECTRODE_SEGMENTS => fieldCall.lane = ELECTRODE_SEGMENTS - 1
           /\ sector < 0 => fieldCall.lane = 0

\* a call on the negative x axis, where the floor is ELECTRODE_SEGMENTS, used
\* the last lane
C23_Witness ==
  /\ fieldCall.done
  /\ fieldCall.position.x < 0
  /\ fieldCall.position.z = 0
  /\ SectorFloor(fieldCall.position.x, fieldCall.position.z) = ELECTRODE_SEGMENTS
  /\ fieldCall.lane = ELECTRODE_SEGMENTS - 1

\* C24: the call in which an Attached particle detaches integrates it as a
\* Free particle: velocity.y receives the impulse (Fy - adhesion) / mass * dt
\* and the regular Fy / mass * dt, drag and the position update follow, and
\* the collection and escape tests are made on the result in the same call.
C24_DetachThenIntegrate ==
  [][\A i \in Slots :
       (last'[i].detached /\ Attached(particles[i])) =>
         \E Fy \in {UpwardForce(particles[i],
                                computeFieldAt(particles[i].position, time'))} :
           LET p == particles[i]
               vy == Drag(p.velocity.y + ((Fy - p.adhesion) \div p.mass) * dt'
                            + (Fy \div p.mass) * dt', dt')
               y == p.position.y + (vy * dt') \div 100
               q == last'[i].integrated
           IN  /\ Fy > p.adhesion
               /\ q.y = IF y < PANEL_SURFACE_Y THEN PANEL_SURFACE_Y ELSE y
               /\ last'[i].path \in {"collect", "escape", "free"}
               /\ last'[i].path = "collect" <=> InTrench(q)
               /\ last'[i].path = "escape" <=> (~InTrench(q) /\ Escaped(q))
               /\ last'[i].path = "collect" => Collected(particles'[i])
               /\ last'[i].path = "escape" => Attached(particles'[i])
               /\ last'[i].path = "free"
                    => /\ Free(particles'[i])
                       /\ particles'[i].position = q
                       /\ particles'[i].velocity.y =
                            IF y < PANEL_SURFACE_Y THEN (vy * (-22)) \div 100 ELSE vy]_vars

\* a particle was detached by a call with dt > 0 and carried above
\* MAX_DUST_HEIGHT in the same call, where the escape test respawned it
C24_Witness ==
  \E i \in Slots :
    /\ last[i].detached
    /\ dt > 0
    /\ last[i].path = "escape"
    /\ last[i].integrated.y > MAX_DUST_HEIGHT
    /\ Attached(particles[i])

\* charge * (FIELD_BASE + FIELD_TRAVEL) - mass * MARTIAN_GRAVITY: the lift at
\* the crest of the wave, at the centre of the panel
PeakLift(p) ==
  p.charge * (FIELD_BASE + FIELD_TRAVEL) - (p.mass * MARTIAN_GRAVITY) \div 100

\* C25: an Attached particle whose peak lift does not exceed its adhesion
\* stays Attached through every stepDust call, at any time and with any dt:
\* the call pins it, it is not detached, collected or respawned, and its
\* radius, mass, charge, adhesion and horizontal position stay as they are,
\* so the same holds for the next call.
C25_HeavyStaysAttached ==
  [][\A i \in Slots :
       (Attached(particles[i]) /\ PeakLift(particles[i]) <= particles[i].adhesion)
         => /\ last'[i].path = "pinned"
            /\ ~last'[i].detached
            /\ Attached(particles'[i])
            /\ PeakLift(particles'[i]) <= particles'[i].adhesion
            /\ particles'[i].radius = particles[i].radius
            /\ particles'[i].mass = particles[i].mass
            /\ particles'[i].charge = particles[i].charge
            /\ particles'[i].adhesion = particles[i].adhesion
            /\ particles'[i].position.x = particles[i].position.x
            /\ particles'[i].position.z = particles[i].position.z]_vars

\* a heavy particle is still pinned after a long frame at the time of the
\* wave that lifts the light ones
C25_Witness ==
  \E i \in Slots :
    /\ Attached(particles[i])
    /\ PeakLift(particles[i]) <= particles[i].adhesion
    /\ last[i].path = "pinned"
    /\ dt = 2224
    /\ \E j \in Slots : last[j].detached

\* the least frame time of the running loop
MinDelta == CHOOSE d \in LiveDeltas : \A e \in LiveDeltas : d <= e

\* C26: when the stepDust calls keep coming and every dt is at least a fixed
\* positive amount, a particle that is Collected is eventually respawned
\* after its dwell: Attached again, with collected false and collectTimer 0.
\* Every call that leaves it Collected advances its timer by at least that
\* amount, and the timer of a Collected particle is never past the dwell time.
C26_CollectedIsRespawned ==
  /\ \A i \in Slots :
       Collected(particles[i])
         ~> (/\ last[i].path = "dwell"
             /\ Attached(particles[i])
             /\ ~particles[i].collected
             /\ particles[i].collectTimer = 0)
  /\ [](\A i \in Slots :
          Collected(particles[i]) => particles[i].collectTimer <= DWELL_TIME)
  /\ [][\A i \in Slots :
          (Collected(particles[i]) /\ Collected(particles'[i]))
            => particles'[i].collectTimer >= particles[i].collectTimer + MinDelta]_vars

\* a particle that waited in the trench through calls of 0.3 s has been
\* respawned
C26_Witness ==
  \E i \in Slots :
    /\ last[i].path = "dwell"
    /\ dt = 300
    /\ dwell[i].sum = 1500
    /\ Attached(particles[i])
    /\ particles[i].collectTimer = 0

\* C27: no particle is ever attached and collected together: every particle
\* is in exactly one of Attached (attached, not collected), Free (neither)
\* and Collected (collected, not attached); a Collected particle has
\* collectTimer >= 0 and every other particle has collectTimer = 0.
C27_ThreeStates ==
  \A i \in Slots :
    LET p == particles[i]
    IN  /\ ~(p.attached /\ p.collected)
        /\ \/ p.attached /\ ~p.collected
           \/ ~p.attached /\ ~p.collected
           \/ p.collected /\ ~p.attached
        /\ p.collected => p.collectTimer >= 0
        /\ ~p.collected => p.collectTimer = 0

\* one particle is waiting in the trench with time on its timer while
\* another is Attached
C27_Witness ==
  \E i, j \in Slots :
    /\ particles[i].collected
    /\ ~particles[i].attached
    /\ particles[i].collectTimer > 0
    /\ particles[j].attached
    /\ ~particles[j].collected
    /\ particles[j].collectTimer = 0

\* w has the sign of v, or is zero, and is no larger in magnitude
Damped(v, w) ==
  /\ v >= 0 => (0 <= w /\ w <= v)
  /\ v <= 0 => (v <= w /\ w <= 0)

\* C28 as stated: in every integration step of a Free particle, with any
\* dt >= 0 the frame clock delivers, every velocity component after the
\* multiplication by 1 - DRAG_COEFF * dt has the sign it had before it, or
\* is zero, and a magnitude no larger than before.
C28_DragNeverReverses ==
  [][\A i \in Slots :
       Free(particles[i]) =>
         \E field \in {computeFieldAt(particles[i].position, time')} :
           LET p == particles[i]
               vx == p.velocity.x + ((p.charge * field.x) \div p.mass) * dt'
               vy == p.velocity.y + (UpwardForce(p, field) \div p.mass) * dt'
               vz == p.velocity.z + ((p.charge * field.z) \div p.mass) * dt'
           IN  /\ Damped(vx, Drag(vx, dt'))
               /\ Damped(vy, Drag(vy, dt'))
               /\ Damped(vz, Drag(vz, dt'))]_vars

\* (4 / 3) * PI * radius^3 * DUST_DENSITY, in the units of mass
SphereMass(radius) ==
  ((((4 * PI_MILLI * radius * radius * radius) \div 3) \div 1000) * DUST_DENSITY) \div 1000

\* C29: a stepDust call that does not respawn a particle leaves its radius,
\* mass, charge and adhesion as they were, and after every sequence of calls
\* every particle's mass is (4/3) * PI * radius^3 * DUST_DENSITY and its
\* adhesion ADHESION_PER_AREA * PI * radius^2 for the radius it has.
C29_GrainKept ==
  /\ [](\A i \in Slots :
          /\ particles[i].mass = SphereMass(particles[i].radius)
          /\ particles[i].adhesion =
               (ADHESION_PER_AREA * PI_MILLI) * (particles[i].radius * particles[i].radius))
  /\ [][\A i \in Slots :
          ~Respawned(i)'
            => /\ particles'[i].radius = particles[i].radius
               /\ particles'[i].mass = particles[i].mass
               /\ particles'[i].charge = particles[i].charge
               /\ particles'[i].adhesion = particles[i].adhesion]_vars

\* one call pinned a heavy particle, which kept its grain, and respawned
\* another after its dwell, which had been light enough to lift and got a
\* heavy grain
C29_Witness ==
  \E i, j \in Slots :
    /\ last[i].path = "pinned"
    /\ last[j].path = "dwell"
    /\ dt > 0
    /\ particles[i].mass = SphereMass(particles[i].radius)
    /\ particles[j].mass = SphereMass(particles[j].radius)
    /\ particles[j].radius = sampleRadius(999)

\* C30: after createDustField and after every stepDust call the mesh
\* position of every particle is its physical position, whichever way its
\* pass ended: pinned, Free, newly Collected, waiting Collected, respawned
\* after an escape or after the dwell time.
C30_MeshFollows ==
  \A i \in Slots :
    /\ last[i].path \in {"spawn", "pinned", "free", "collect", "wait", "dwell", "escape"}
    /\ particles[i].meshPosition = particles[i].position

\* a particle has just been collected and its mesh is at the cartridge
\* height, off the centre
C30_Witness ==
  \E i \in Slots :
    /\ last[i].path = "collect"
    /\ particles[i].meshPosition.y = BASE_THICKNESS + CARTRIDGE_HEIGHT \div 2
    /\ particles[i].meshPosition.x = last[i].integrated.x
    /\ particles[i].meshPosition.x # 0
    /\ last[i].integrated.y # particles[i].meshPosition.y

====
